---- MODULE Spec2Model ----
(***************************************************************************)
(* python3_commons.async_functools: the async LRU cache.                   *)
(*                                                                         *)
(* One cache instance wraps one producer coroutine function.  Tasks of a   *)
(* single asyncio event loop call it; a task is suspended only at          *)
(* `await self.__wrapped__(...)` and at `await self._in_flight[key]`, so   *)
(* the code between two awaits is one atomic step of the model.            *)
(***************************************************************************)
EXTENDS Integers, Sequences, FiniteSets

\* ------------------------------------------------------------------ bounds
NTasks == 4
NKeys == 3
MaxSize == 2
NInstances == 2

Tasks == 1..NTasks
Keys == 1..NKeys

\* maxsize=None (the memoizing variant); ints are clamped to >= 0 on construction.
MaxsizeNone == -1
Capacities == {MaxsizeNone} \cup (0..MaxSize)

\* A future of the in-flight registry is named by the task that created it.
NoFuture == 0
NoKey == 0
NoInstance == 0

VARIABLES
    maxsize,     \* _maxsize of the wrapper that async_lru_cache built
    cache,       \* _cache: key/value entries, oldest (least recently used) first
    in_flight,   \* _in_flight: key -> future (NoFuture: no entry)
    hits,        \* _hits
    misses,      \* _misses
    future,      \* the asyncio futures created by the calls: state and outcome
    pc,          \* where each task's call is
    key,         \* the key each task's call computed
    fut,         \* the future each task's call awaits or resolves
    out,         \* what each task's call returned or raised
    started,     \* producer invocations started, per key
    produced,    \* what each task's producer invocation returned or raised
    orphaned,    \* futures that cache_clear dropped from the registry while pending
    accessOrder, \* bounded variant: the stored keys, least recently accessed first
    discarded,   \* the key of the cache_discard just executed (NoKey: the last step was none)
    recalled,    \* the task whose call just followed a cache_discard of its key
    arg,         \* the maxsize argument async_lru_cache was called with
    typed,       \* _typed
    interned,    \* the keys _make_key has derived so far, in order of first use
    given,       \* the arguments each task's __call__ received
    via,         \* the instance each task called the method on (NoInstance: none)
    twin,        \* a bounded cache driven by the same operations, for comparison
    retry        \* helpers.tries: `times` and the calls made of the wrapper

vars == <<maxsize, cache, in_flight, hits, misses, future, pc, key, fut, out,
          started, produced, orphaned, accessOrder, discarded, recalled,
          arg, typed, interned, given, via, twin, retry>>

\* What the specifications record about the callers, beside the cache's own state.
callVars == <<arg, typed, interned, given, via>>

aux == <<discarded, recalled, arg, typed, interned, given, via, twin, retry>>

\* ---------------------------------------------------------------- outcomes
None == [kind |-> "none", v |-> 0]
Pending == [kind |-> "pending", v |-> 0]
Result(v) == [kind |-> "result", v |-> v]
Exception(e) == [kind |-> "exception", v |-> e]

\* asyncio: a cancelled future, and what the awaiting task gets (CancelledError)
Cancelled == [kind |-> "cancelled", v |-> 0]

\* asyncio.InvalidStateError, raised by set_result/set_exception on a future that is
\* already done; no producer error has this name.
InvalidStateError == 0

\* TypeError("unhashable type"), raised by hash()
TypeError == -1

\* The producer is opaque to the cache, which never inspects what it returns or
\* raises: the object an invocation returns, or the exception object it raises,
\* is named by the invocation (the task that started it).
Value(t) == t
Error(t) == t

\* ------------------------------------------------------ the store (_cache)
Entry(k, v) == [key |-> k, val |-> v]

CacheKeys(c) == {c[i].key : i \in DOMAIN c}

CacheIndex(c, k) == CHOOSE i \in DOMAIN c : c[i].key = k

CacheGet(c, k) == c[CacheIndex(c, k)].val

\* Seeded fault: the entry is looked up but not removed.
CachePop_Noop(c, k) == c

\* dict.pop(key, None) / OrderedDict.pop(key, None)
CachePop(c, k) ==
    IF k \in CacheKeys(c)
    THEN LET i == CacheIndex(c, k)
         IN SubSeq(c, 1, i - 1) \o SubSeq(c, i + 1, Len(c))
    ELSE c

\* Seeded fault: a hit does not promote the entry.
move_to_end_Noop(c, k) == c

\* OrderedDict.move_to_end(key)
move_to_end(c, k) == Append(CachePop(c, k), Entry(k, CacheGet(c, k)))

\* OrderedDict.popitem(last=False)
popitem_first(c) == Tail(c)

\* d[key] = value: a new key goes last, an existing key keeps its place
CacheSet(c, k, v) ==
    IF k \in CacheKeys(c)
    THEN [c EXCEPT ![CacheIndex(c, k)].val = v]
    ELSE Append(c, Entry(k, v))

\* The recency record kept beside the store: an access (a hit or an insertion) of k
\* makes k the most recent; a key no longer stored is forgotten.
Forget(order, stored) == SelectSeq(order, LAMBDA x : x \in stored)

Touch(order, k) == Append(SelectSeq(order, LAMBDA x : x # k), k)

\* ------------------------------------------------------ async_lru_cache()
\* The first argument of async_lru_cache: left out, None, an int, or the function
\* itself (the bare decorator).
Omitted == [kind |-> "omitted", n |-> 0]
NoneArg == [kind |-> "none", n |-> 0]
IntArg(n) == [kind |-> "int", n |-> n]
FuncArg == [kind |-> "callable", n |-> 0]

\* `maxsize: int | AC | None = 128`, and `maxsize=128` of the bare decorator
DefaultMaxsize == 128

\* Seeded fault: the bare decorator builds the memoizing variant.
async_lru_cache_BareIsUnbounded(a) ==
    IF a.kind = "callable" \/ a.kind = "none" THEN MaxsizeNone
    ELSE IF a.kind = "int" THEN (IF a.n > 0 THEN a.n ELSE 0)
    ELSE DefaultMaxsize

\* Seeded fault: a capacity left out is taken as None.
async_lru_cache_OmittedIsNone(a) ==
    IF a.kind = "omitted" \/ a.kind = "none" THEN MaxsizeNone
    ELSE IF a.kind = "int" THEN (IF a.n > 0 THEN a.n ELSE 0)
    ELSE DefaultMaxsize

\* The _maxsize of the wrapper async_lru_cache builds (MaxsizeNone: the memoizing
\* variant, 0: the uncached variant, n > 0: the bounded variant).
async_lru_cache(a) ==
    LET m == IF a.kind = "omitted" THEN IntArg(DefaultMaxsize) ELSE a
    IN IF m.kind = "int" THEN (IF m.n > 0 THEN m.n ELSE 0)
       ELSE IF m.kind = "none" THEN MaxsizeNone
       ELSE DefaultMaxsize

\* The capacities of the behavioural specifications, as arguments.
CapacityArgs == {NoneArg} \cup {IntArg(n) : n \in 0..MaxSize}

\* ------------------------------------------------- arguments and _make_key
\* Python values: equal numbers of different types are equal (1 == 1.0), a str
\* equals only the same str, an instance only itself.
IntValue(n) == [type |-> "int", val |-> n]
FloatValue(n) == [type |-> "float", val |-> n]
StrValue(n) == [type |-> "str", val |-> n]
Instance(i) == [type |-> "A", val |-> i]
kwd_mark == [type |-> "object", val |-> 0]
\* a list: an argument that hash() rejects
ListValue(n) == [type |-> "list", val |-> n]

TypeId == [int |-> 1, float |-> 2, str |-> 3, A |-> 4, object |-> 5, list |-> 6]
TypeOf(v) == [type |-> "type", val |-> TypeId[v.type]]

PyEq(x, y) ==
    IF x.type \in {"int", "float"} /\ y.type \in {"int", "float"}
    THEN x.val = y.val
    ELSE x = y

\* A call's arguments: the positional ones in order, the keyword ones in the order
\* the caller wrote them (a dict keeps insertion order).
Arguments(a, k) == [args |-> a, kwds |-> k]
NoArguments == Arguments(<<>>, <<>>)
Kwd(n, v) == [name |-> n, value |-> v]

RECURSIVE Items(_)
Items(kwds) ==
    IF kwds = <<>> THEN <<>>
    ELSE <<StrValue(Head(kwds).name), Head(kwds).value>> \o Items(Tail(kwds))

KwdValues(kwds) == [i \in DOMAIN kwds |-> kwds[i].value]
Types(vs) == [i \in DOMAIN vs |-> TypeOf(vs[i])]

fasttypes == {"int", "str"}

\* _HashedSeq(key), a list; and the single argument returned without a wrapper
HashedSeq(s) == [hashed |-> TRUE, seq |-> s]
Unwrapped(v) == [hashed |-> FALSE, seq |-> <<v>>]

\* Seeded fault: the typed flag is not passed on.
make_key_IgnoresTyped(args, kwds, ty) ==
    LET k1 == IF kwds # <<>> THEN args \o <<kwd_mark>> \o Items(kwds) ELSE args
    IN IF Len(k1) = 1 /\ k1[1].type \in fasttypes
       THEN Unwrapped(k1[1])
       ELSE HashedSeq(k1)

\* self._make_key(args, kwargs) = functools._make_key(args, kwargs, typed=self._typed)
make_key(args, kwds, ty) ==
    LET k1 == IF kwds # <<>> THEN args \o <<kwd_mark>> \o Items(kwds) ELSE args
    IN IF ty
       THEN HashedSeq(k1 \o Types(args)
                         \o (IF kwds # <<>> THEN Types(KwdValues(kwds)) ELSE <<>>))
       ELSE IF Len(k1) = 1 /\ k1[1].type \in fasttypes
            THEN Unwrapped(k1[1])
            ELSE HashedSeq(k1)

\* hash(v) returns; a type object hashes, a list does not
Hashable(v) == v.type # "list"

\* _HashedSeq.__init__ computes hash(tup), which hashes every element of the key and
\* raises TypeError at the first one that cannot be hashed; the single int or str
\* returned without a wrapper always hashes.
Unhashable(dk) == dk.hashed /\ \E i \in DOMAIN dk.seq : ~Hashable(dk.seq[i])

\* key == other, as the dicts _cache and _in_flight compare keys
KeyEq(x, y) ==
    /\ x.hashed = y.hashed
    /\ Len(x.seq) = Len(y.seq)
    /\ \A i \in DOMAIN x.seq : PyEq(x.seq[i], y.seq[i])

\* The cache tells keys apart by equality only: a derived key is the n-th distinct
\* key the cache has seen.
Intern(table, dk) ==
    IF \E i \in DOMAIN table : KeyEq(table[i], dk)
    THEN CHOOSE i \in DOMAIN table : KeyEq(table[i], dk)
    ELSE Len(table) + 1

\* ------------------------------------------------------------------- Init
\* The wrapper just built: nothing stored, nothing in flight, nothing called.
\* CachedLRUAsyncCallable.__init__: the fields of a second, bounded cache and of
\* the calls made on it.
TwinEmpty ==
    [cache |-> <<>>,
     in_flight |-> [k \in Keys |-> NoFuture],
     hits |-> 0,
     misses |-> 0,
     future |-> [t \in Tasks |-> None],
     pc |-> [t \in Tasks |-> "idle"],
     fut |-> [t \in Tasks |-> NoFuture],
     out |-> [t \in Tasks |-> None]]

\* No function is wrapped with helpers.tries.
NoTries == [times |-> 0, call |-> <<>>]

\* The cache as constructed: nothing stored, registered, counted or called.
EmptyCache ==
    /\ twin = TwinEmpty
    /\ interned = <<>>
    /\ given = [t \in Tasks |-> NoArguments]
    /\ via = [t \in Tasks |-> NoInstance]
    /\ cache = <<>>
    /\ in_flight = [k \in Keys |-> NoFuture]
    /\ hits = 0
    /\ misses = 0
    /\ future = [t \in Tasks |-> None]
    /\ pc = [t \in Tasks |-> "idle"]
    /\ key = [t \in Tasks |-> NoKey]
    /\ fut = [t \in Tasks |-> NoFuture]
    /\ out = [t \in Tasks |-> None]
    /\ started = [k \in Keys |-> 0]
    /\ produced = [t \in Tasks |-> None]
    /\ orphaned = {}
    /\ accessOrder = <<>>
    /\ discarded = NoKey
    /\ recalled = NoFuture

Empty == retry = NoTries /\ EmptyCache

Init ==
    /\ maxsize \in Capacities
    /\ arg \in CapacityArgs
    /\ maxsize = async_lru_cache(arg)
    /\ typed = FALSE
    /\ Empty

\* ------------------------------------------------------------ the callers
\* Tasks are created in order: the next call is made by the lowest idle task.
IsNext(t) == pc[t] = "idle" /\ \A u \in Tasks : u < t => pc[u] # "idle"

\* Keys are opaque hashable values, told apart only by equality: the callers name
\* them in order of first use (a call uses a key already used or the next new one).
UsedKeys == {key[t] : t \in {u \in Tasks : pc[u] # "idle"}}

IsFresh(k) == \A j \in Keys : j < k => j \in UsedKeys

IsDone(f) == f.kind \in {"result", "exception"}

\* Seeded fault: the finally block deletes the key's entry whoever registered it.
Retire_Unconditional(reg, k, f) == [reg EXCEPT ![k] = NoFuture]

\* `finally: if self._in_flight.get(key) is future: del self._in_flight[key]`
Retire(reg, k, f) == IF reg[k] = f THEN [reg EXCEPT ![k] = NoFuture] ELSE reg

\* Seeded fault: cache_clear forgets the registry.
RegistryClear_Noop(reg) == reg

\* dict.clear() of the registry
RegistryClear(reg) == [k \in Keys |-> NoFuture]

\* The miss path up to `await self.__wrapped__(...)`: count the miss, create the
\* future, register it, start the producer.
\* Seeded fault: the producer is invoked without the miss being counted.
Miss_Uncounted(t, k) ==
    /\ misses' = misses
    /\ future' = [future EXCEPT ![t] = Pending]
    /\ in_flight' = [in_flight EXCEPT ![k] = t]
    /\ fut' = [fut EXCEPT ![t] = t]
    /\ pc' = [pc EXCEPT ![t] = "producing"]
    /\ started' = [started EXCEPT ![k] = @ + 1]
    /\ UNCHANGED <<cache, hits, out>>

\* The miss path: count the miss, create the future, register it and invoke the
\* producer.
Miss(t, k) ==
    /\ misses' = misses + 1
    /\ future' = [future EXCEPT ![t] = Pending]
    /\ in_flight' = [in_flight EXCEPT ![k] = t]
    /\ fut' = [fut EXCEPT ![t] = t]
    /\ pc' = [pc EXCEPT ![t] = "producing"]
    /\ started' = [started EXCEPT ![k] = @ + 1]
    /\ UNCHANGED <<cache, hits, out>>

\* Seeded fault: no coalescing, a call that finds a pending entry invokes the producer.
Join_InvokesAgain(t, k) == Miss(t, k)

\* Seeded fault: a call that joins a pending entry is counted as a hit.
Join_CountsHit(t, k) ==
    /\ fut' = [fut EXCEPT ![t] = in_flight[k]]
    /\ pc' = [pc EXCEPT ![t] = "joined"]
    /\ hits' = hits + 1
    /\ UNCHANGED <<cache, in_flight, misses, future, out, started>>

\* `return await self._in_flight[key]`: suspend on the registered future.
Join(t, k) ==
    /\ fut' = [fut EXCEPT ![t] = in_flight[k]]
    /\ pc' = [pc EXCEPT ![t] = "joined"]
    /\ UNCHANGED <<cache, in_flight, hits, misses, future, out, started>>

\* ------------------------------------------- UncachedLRUAsyncCallable (0)
\* Seeded fault: the pass-through call forgets to count its miss.
UncachedCall_NoMiss(t, k) ==
    /\ maxsize = 0
    /\ IsNext(t)
    /\ IsFresh(k)
    /\ key' = [key EXCEPT ![t] = k]
    /\ pc' = [pc EXCEPT ![t] = "producing"]
    /\ started' = [started EXCEPT ![k] = @ + 1]
    /\ UNCHANGED <<maxsize, cache, in_flight, hits, misses, future, fut, out, produced,
                   orphaned, accessOrder>>

UncachedCall(t, k) ==
    /\ maxsize = 0
    /\ IsNext(t)
    /\ IsFresh(k)
    /\ key' = [key EXCEPT ![t] = k]
    /\ misses' = misses + 1
    /\ pc' = [pc EXCEPT ![t] = "producing"]
    /\ started' = [started EXCEPT ![k] = @ + 1]
    /\ UNCHANGED <<maxsize, cache, in_flight, hits, future, fut, out, produced, orphaned, accessOrder>>

UncachedReturn(t) ==
    /\ maxsize = 0
    /\ pc[t] = "producing"
    /\ produced' = [produced EXCEPT ![t] = Result(Value(t))]
    /\ out' = [out EXCEPT ![t] = Result(Value(t))]
    /\ pc' = [pc EXCEPT ![t] = "done"]
    /\ UNCHANGED <<maxsize, cache, in_flight, hits, misses, future, key, fut, started, orphaned, accessOrder>>

UncachedRaise(t) ==
    /\ maxsize = 0
    /\ pc[t] = "producing"
    /\ produced' = [produced EXCEPT ![t] = Exception(Error(t))]
    /\ out' = [out EXCEPT ![t] = Exception(Error(t))]
    /\ pc' = [pc EXCEPT ![t] = "done"]
    /\ UNCHANGED <<maxsize, cache, in_flight, hits, misses, future, key, fut, started, orphaned, accessOrder>>

UncachedDiscard(k) ==
    /\ maxsize = 0
    /\ k \in Keys
    /\ UNCHANGED <<maxsize, cache, in_flight, hits, misses, future, pc, key, fut, out,
                   started, produced, orphaned, accessOrder>>

\* BaseLRUAsyncCallable.cache_clear, which the uncached variant inherits
BaseClear ==
    /\ hits' = 0
    /\ misses' = 0
    /\ in_flight' = RegistryClear(in_flight)
    /\ orphaned' = orphaned \cup ({in_flight[k] : k \in Keys} \ {NoFuture})
    /\ UNCHANGED <<maxsize, future, pc, key, fut, out, started, produced>>

UncachedClear ==
    /\ maxsize = 0
    /\ BaseClear
    /\ UNCHANGED <<cache, accessOrder>>

\* --------------------------------------- MemoizedLRUAsyncCallable (None)
MemoizedCall(t, k) ==
    /\ maxsize = MaxsizeNone
    /\ IsNext(t)
    /\ IsFresh(k)
    /\ key' = [key EXCEPT ![t] = k]
    /\ IF k \in CacheKeys(cache)
       THEN /\ hits' = hits + 1
            /\ out' = [out EXCEPT ![t] = Result(CacheGet(cache, k))]
            /\ pc' = [pc EXCEPT ![t] = "done"]
            /\ UNCHANGED <<cache, in_flight, misses, future, fut, started>>
       ELSE IF in_flight[k] # NoFuture
            THEN Join(t, k)
            ELSE Miss(t, k)
    /\ UNCHANGED <<maxsize, produced, orphaned, accessOrder>>

\* Seeded fault: the memoizing variant stores like a bounded one of capacity 2.
MemoizedReturn_Evicts(t) ==
    /\ maxsize = MaxsizeNone
    /\ pc[t] = "producing"
    /\ produced' = [produced EXCEPT ![t] = Result(Value(t))]
    /\ cache' = CacheSet(IF Len(cache) >= 2 /\ key[t] \notin CacheKeys(cache)
                         THEN popitem_first(cache) ELSE cache, key[t], Value(t))
    /\ future' = [future EXCEPT ![t] = Result(Value(t))]
    /\ in_flight' = Retire(in_flight, key[t], t)
    /\ out' = [out EXCEPT ![t] = Result(Value(t))]
    /\ pc' = [pc EXCEPT ![t] = "done"]
    /\ UNCHANGED <<maxsize, hits, misses, key, fut, started, orphaned, accessOrder>>

MemoizedReturn(t) ==
    /\ maxsize = MaxsizeNone
    /\ pc[t] = "producing"
    /\ produced' = [produced EXCEPT ![t] = Result(Value(t))]
    /\ cache' = CacheSet(cache, key[t], Value(t))
    /\ future' = [future EXCEPT ![t] = Result(Value(t))]
    /\ in_flight' = Retire(in_flight, key[t], t)
    /\ out' = [out EXCEPT ![t] = Result(Value(t))]
    /\ pc' = [pc EXCEPT ![t] = "done"]
    /\ UNCHANGED <<maxsize, hits, misses, key, fut, started, orphaned, accessOrder>>

MemoizedRaise(t) ==
    /\ maxsize = MaxsizeNone
    /\ pc[t] = "producing"
    /\ produced' = [produced EXCEPT ![t] = Exception(Error(t))]
    /\ future' = [future EXCEPT ![t] = Exception(Error(t))]
    /\ in_flight' = Retire(in_flight, key[t], t)
    /\ out' = [out EXCEPT ![t] = Exception(Error(t))]
    /\ pc' = [pc EXCEPT ![t] = "done"]
    /\ UNCHANGED <<maxsize, cache, hits, misses, key, fut, started, orphaned, accessOrder>>

\* Seeded fault: discarding a key resets the statistics, as cache_clear does.
MemoizedDiscard_ResetsCounters(k) ==
    /\ maxsize = MaxsizeNone
    /\ cache' = CachePop(cache, k)
    /\ hits' = 0
    /\ misses' = 0
    /\ UNCHANGED <<maxsize, in_flight, future, pc, key, fut, out,
                   started, produced, orphaned, accessOrder>>

MemoizedDiscard(k) ==
    /\ maxsize = MaxsizeNone
    /\ cache' = CachePop(cache, k)
    /\ UNCHANGED <<maxsize, in_flight, hits, misses, future, pc, key, fut, out,
                   started, produced, orphaned, accessOrder>>

MemoizedClear ==
    /\ maxsize = MaxsizeNone
    /\ BaseClear
    /\ cache' = <<>>
    /\ UNCHANGED accessOrder

\* ------------------------------------------ CachedLRUAsyncCallable (> 0)
\* Seeded fault: the capacity test is `>` instead of `>=`.
StoreResult_OffByOne(c, k, v) ==
    IF k \notin CacheKeys(c)
    THEN CacheSet(IF Len(c) > maxsize THEN popitem_first(c) ELSE c, k, v)
    ELSE c

\* `if key not in self._cache: if len(self._cache) >= self._maxsize:
\*  self._cache.popitem(last=False); self._cache[key] = result`
StoreResult(c, k, v) ==
    IF k \notin CacheKeys(c)
    THEN CacheSet(IF Len(c) >= maxsize THEN popitem_first(c) ELSE c, k, v)
    ELSE c

\* Seeded fault: the miss is counted before the store is looked up.
CachedCall_HitCountsMiss(t, k) ==
    /\ maxsize > 0
    /\ IsNext(t)
    /\ IsFresh(k)
    /\ key' = [key EXCEPT ![t] = k]
    /\ IF k \in CacheKeys(cache)
       THEN /\ hits' = hits + 1
            /\ misses' = misses + 1
            /\ cache' = move_to_end(cache, k)
            /\ out' = [out EXCEPT ![t] = Result(CacheGet(cache', k))]
            /\ pc' = [pc EXCEPT ![t] = "done"]
            /\ UNCHANGED <<in_flight, future, fut, started>>
       ELSE IF in_flight[k] # NoFuture
            THEN Join(t, k)
            ELSE Miss(t, k)
    /\ accessOrder' = IF k \in CacheKeys(cache) THEN Touch(accessOrder, k) ELSE accessOrder
    /\ UNCHANGED <<maxsize, produced, orphaned>>

CachedCall(t, k) ==
    /\ maxsize > 0
    /\ IsNext(t)
    /\ IsFresh(k)
    /\ key' = [key EXCEPT ![t] = k]
    /\ IF k \in CacheKeys(cache)
       THEN /\ hits' = hits + 1
            /\ cache' = move_to_end(cache, k)
            /\ out' = [out EXCEPT ![t] = Result(CacheGet(cache', k))]
            /\ pc' = [pc EXCEPT ![t] = "done"]
            /\ UNCHANGED <<in_flight, misses, future, fut, started>>
       ELSE IF in_flight[k] # NoFuture
            THEN Join(t, k)
            ELSE Miss(t, k)
    /\ accessOrder' = IF k \in CacheKeys(cache) THEN Touch(accessOrder, k) ELSE accessOrder
    /\ UNCHANGED <<maxsize, produced, orphaned>>

\* Seeded fault: the future is resolved only while its entry is still registered.
CachedReturn_ResolvesIfRegistered(t) ==
    /\ maxsize > 0
    /\ pc[t] = "producing"
    /\ produced' = [produced EXCEPT ![t] = Result(Value(t))]
    /\ future' = IF in_flight[key[t]] = t
                 THEN [future EXCEPT ![t] = Result(Value(t))]
                 ELSE future
    /\ cache' = StoreResult(cache, key[t], Value(t))
    /\ in_flight' = Retire(in_flight, key[t], t)
    /\ out' = [out EXCEPT ![t] = Result(Value(t))]
    /\ pc' = [pc EXCEPT ![t] = "done"]
    /\ accessOrder' = IF key[t] \in CacheKeys(cache') \ CacheKeys(cache)
                      THEN Touch(Forget(accessOrder, CacheKeys(cache')), key[t])
                      ELSE Forget(accessOrder, CacheKeys(cache'))
    /\ UNCHANGED <<maxsize, hits, misses, key, fut, started, orphaned>>

CachedReturn(t) ==
    /\ maxsize > 0
    /\ pc[t] = "producing"
    /\ produced' = [produced EXCEPT ![t] = Result(Value(t))]
    /\ future' = [future EXCEPT ![t] = Result(Value(t))]
    /\ cache' = StoreResult(cache, key[t], Value(t))
    /\ in_flight' = Retire(in_flight, key[t], t)
    /\ out' = [out EXCEPT ![t] = Result(Value(t))]
    /\ pc' = [pc EXCEPT ![t] = "done"]
    /\ accessOrder' = IF key[t] \in CacheKeys(cache') \ CacheKeys(cache)
                      THEN Touch(Forget(accessOrder, CacheKeys(cache')), key[t])
                      ELSE Forget(accessOrder, CacheKeys(cache'))
    /\ UNCHANGED <<maxsize, hits, misses, key, fut, started, orphaned>>

\* Seeded fault: the pending entry is failed with a new exception object wrapping the
\* producer's, while the originating caller re-raises the producer's own.
CachedRaise_WrapsError(t) ==
    /\ maxsize > 0
    /\ pc[t] = "producing"
    /\ produced' = [produced EXCEPT ![t] = Exception(Error(t))]
    /\ future' = [future EXCEPT ![t] = Exception(0)]
    /\ in_flight' = Retire(in_flight, key[t], t)
    /\ out' = [out EXCEPT ![t] = Exception(Error(t))]
    /\ pc' = [pc EXCEPT ![t] = "done"]
    /\ UNCHANGED <<maxsize, cache, hits, misses, key, fut, started, orphaned, accessOrder>>

\* Seeded fault: the exception is stored under the key like a result.
CachedRaise_StoresFailure(t) ==
    /\ maxsize > 0
    /\ pc[t] = "producing"
    /\ produced' = [produced EXCEPT ![t] = Exception(Error(t))]
    /\ future' = [future EXCEPT ![t] = Exception(Error(t))]
    /\ cache' = StoreResult(cache, key[t], Error(t))
    /\ in_flight' = Retire(in_flight, key[t], t)
    /\ out' = [out EXCEPT ![t] = Exception(Error(t))]
    /\ pc' = [pc EXCEPT ![t] = "done"]
    /\ accessOrder' = IF key[t] \in CacheKeys(cache') \ CacheKeys(cache)
                      THEN Touch(Forget(accessOrder, CacheKeys(cache')), key[t])
                      ELSE Forget(accessOrder, CacheKeys(cache'))
    /\ UNCHANGED <<maxsize, hits, misses, key, fut, started, orphaned>>

CachedRaise(t) ==
    /\ maxsize > 0
    /\ pc[t] = "producing"
    /\ produced' = [produced EXCEPT ![t] = Exception(Error(t))]
    /\ future' = [future EXCEPT ![t] = Exception(Error(t))]
    /\ in_flight' = Retire(in_flight, key[t], t)
    /\ out' = [out EXCEPT ![t] = Exception(Error(t))]
    /\ pc' = [pc EXCEPT ![t] = "done"]
    /\ UNCHANGED <<maxsize, cache, hits, misses, key, fut, started, orphaned, accessOrder>>

\* Seeded fault: the discard also drops the key's pending entry.
CachedDiscard_DropsPending(k) ==
    /\ maxsize > 0
    /\ cache' = CachePop(cache, k)
    /\ in_flight' = [in_flight EXCEPT ![k] = NoFuture]
    /\ accessOrder' = Forget(accessOrder, CacheKeys(cache'))
    /\ UNCHANGED <<maxsize, hits, misses, future, pc, key, fut, out,
                   started, produced, orphaned>>

CachedDiscard(k) ==
    /\ maxsize > 0
    /\ cache' = CachePop(cache, k)
    /\ accessOrder' = Forget(accessOrder, CacheKeys(cache'))
    /\ UNCHANGED <<maxsize, in_flight, hits, misses, future, pc, key, fut, out,
                   started, produced, orphaned>>

CachedClear ==
    /\ maxsize > 0
    /\ BaseClear
    /\ cache' = <<>>
    /\ accessOrder' = Forget(accessOrder, CacheKeys(cache'))

\* ------------------------------------------------- awaiting a joined future
\* The event loop wakes a task suspended in `await self._in_flight[key]` once the
\* future it holds is done; the await returns the result or raises the exception.
Resume(t) ==
    /\ pc[t] = "joined"
    /\ IsDone(future[fut[t]])
    /\ out' = [out EXCEPT ![t] = future[fut[t]]]
    /\ pc' = [pc EXCEPT ![t] = "done"]
    /\ UNCHANGED <<maxsize, cache, in_flight, hits, misses, future, key, fut,
                   started, produced, orphaned, accessOrder>>

\* ------------------------------------------------------------ cancellation
\* Task.cancel() of a caller suspended in `await self.__wrapped__(...)`: the
\* CancelledError goes through the producer and through __call__, where
\* `except Exception` does not catch it (it is a BaseException); the finally
\* block runs, the future is left pending.
\* Seeded fault: the registry entry is deleted only on the paths that resolve the future.
CancelOriginator_LeavesEntry(t) ==
    /\ pc[t] = "producing"
    /\ produced' = [produced EXCEPT ![t] = Cancelled]
    /\ out' = [out EXCEPT ![t] = Cancelled]
    /\ pc' = [pc EXCEPT ![t] = "cancelled"]
    /\ UNCHANGED <<maxsize, cache, in_flight, hits, misses, future, key, fut, started,
                   orphaned, accessOrder>>

CancelOriginator(t) ==
    /\ pc[t] = "producing"
    /\ produced' = [produced EXCEPT ![t] = Cancelled]
    /\ in_flight' = IF maxsize # 0 THEN Retire(in_flight, key[t], t) ELSE in_flight
    /\ out' = [out EXCEPT ![t] = Cancelled]
    /\ pc' = [pc EXCEPT ![t] = "cancelled"]
    /\ UNCHANGED <<maxsize, cache, hits, misses, future, key, fut, started,
                   orphaned, accessOrder>>

\* Task.cancel() of a caller suspended in `await self._in_flight[key]`: the task
\* awaits the shared future itself, so asyncio cancels that future
\* (Task.cancel calls cancel() on the future the task waits for).
CancelJoiner(t) ==
    /\ pc[t] = "joined"
    /\ future[fut[t]] = Pending
    /\ future' = [future EXCEPT ![fut[t]] = Cancelled]
    /\ out' = [out EXCEPT ![t] = Cancelled]
    /\ pc' = [pc EXCEPT ![t] = "cancelled"]
    /\ UNCHANGED <<maxsize, cache, in_flight, hits, misses, key, fut, started, produced,
                   orphaned, accessOrder>>

\* A task awaiting a future that was cancelled gets CancelledError.
ResumeCancelled(t) ==
    /\ pc[t] = "joined"
    /\ future[fut[t]] = Cancelled
    /\ out' = [out EXCEPT ![t] = Cancelled]
    /\ pc' = [pc EXCEPT ![t] = "done"]
    /\ UNCHANGED <<maxsize, cache, in_flight, hits, misses, future, key, fut,
                   started, produced, orphaned, accessOrder>>

\* The producer returns and the call's future was cancelled meanwhile:
\* `future.set_result(result)` raises InvalidStateError, `except Exception` catches
\* it, `future.set_exception(exc)` raises InvalidStateError again, which leaves the
\* call after the finally block.  The memoizing variant has stored the result
\* before (line 219), the bounded variant stores after set_result (lines 271-276).
MemoizedReturnInvalidState(t) ==
    /\ maxsize = MaxsizeNone
    /\ pc[t] = "producing"
    /\ future[t] = Cancelled
    /\ produced' = [produced EXCEPT ![t] = Result(Value(t))]
    /\ cache' = CacheSet(cache, key[t], Value(t))
    /\ in_flight' = Retire(in_flight, key[t], t)
    /\ out' = [out EXCEPT ![t] = Exception(InvalidStateError)]
    /\ pc' = [pc EXCEPT ![t] = "done"]
    /\ UNCHANGED <<maxsize, hits, misses, future, key, fut, started, orphaned, accessOrder>>

CachedReturnInvalidState(t) ==
    /\ maxsize > 0
    /\ pc[t] = "producing"
    /\ future[t] = Cancelled
    /\ produced' = [produced EXCEPT ![t] = Result(Value(t))]
    /\ in_flight' = Retire(in_flight, key[t], t)
    /\ out' = [out EXCEPT ![t] = Exception(InvalidStateError)]
    /\ pc' = [pc EXCEPT ![t] = "done"]
    /\ UNCHANGED <<maxsize, cache, hits, misses, future, key, fut, started, orphaned,
                   accessOrder>>

\* The producer raises and the call's future was cancelled meanwhile:
\* `future.set_exception(exc)` raises InvalidStateError in the except block.
RaiseInvalidState(t) ==
    /\ maxsize # 0
    /\ pc[t] = "producing"
    /\ future[t] = Cancelled
    /\ produced' = [produced EXCEPT ![t] = Exception(Error(t))]
    /\ in_flight' = Retire(in_flight, key[t], t)
    /\ out' = [out EXCEPT ![t] = Exception(InvalidStateError)]
    /\ pc' = [pc EXCEPT ![t] = "done"]
    /\ UNCHANGED <<maxsize, cache, hits, misses, future, key, fut, started, orphaned,
                   accessOrder>>

\* cache_info()
cache_info ==
    IF maxsize = 0
    THEN [hits |-> 0, misses |-> misses, maxsize |-> 0, currsize |-> 0]
    ELSE [hits |-> hits, misses |-> misses, maxsize |-> maxsize, currsize |-> Len(cache)]

\* ------------------------------------------------------- specifications
Call(t, k) == UncachedCall(t, k) \/ MemoizedCall(t, k) \/ CachedCall(t, k)

ProducerReturn(t) ==
    UncachedReturn(t) \/ MemoizedReturn(t) \/ CachedReturn(t)

ProducerRaise(t) ==
    UncachedRaise(t) \/ MemoizedRaise(t) \/ CachedRaise(t)

cache_discard(k) == UncachedDiscard(k) \/ MemoizedDiscard(k) \/ CachedDiscard(k)

cache_clear == UncachedClear \/ MemoizedClear \/ CachedClear

Next ==
    \/ \E t \in Tasks, k \in Keys : Call(t, k) /\ UNCHANGED aux
    \/ \E t \in Tasks : ProducerReturn(t) /\ UNCHANGED aux
    \/ \E t \in Tasks : ProducerRaise(t) /\ UNCHANGED aux
    \/ \E t \in Tasks : Resume(t) /\ UNCHANGED aux
    \/ \E k \in Keys : cache_discard(k) /\ UNCHANGED aux
    \/ cache_clear /\ UNCHANGED aux

Spec == Init /\ [][Next]_vars

\* The same cache with no cache_clear issued: calls, completions and discards.
NextNoClear ==
    \/ \E t \in Tasks, k \in Keys : Call(t, k) /\ UNCHANGED aux
    \/ \E t \in Tasks : ProducerReturn(t) /\ UNCHANGED aux
    \/ \E t \in Tasks : ProducerRaise(t) /\ UNCHANGED aux
    \/ \E t \in Tasks : Resume(t) /\ UNCHANGED aux
    \/ \E k \in Keys : cache_discard(k) /\ UNCHANGED aux

SpecNoClear == Init /\ [][NextNoClear]_vars

\* The same cache, recording which cache_discard was the last step and which call
\* followed it at once.
NextDiscard ==
    \/ \E t \in Tasks, k \in Keys :
          /\ Call(t, k)
          /\ discarded' = NoKey
          /\ recalled' = IF discarded = k THEN t ELSE NoFuture
          /\ UNCHANGED <<callVars, twin, retry>>
    \/ \E t \in Tasks :
          ProducerReturn(t) /\ discarded' = NoKey /\ recalled' = NoFuture
          /\ UNCHANGED <<callVars, twin, retry>>
    \/ \E t \in Tasks :
          ProducerRaise(t) /\ discarded' = NoKey /\ recalled' = NoFuture
          /\ UNCHANGED <<callVars, twin, retry>>
    \/ \E t \in Tasks :
          Resume(t) /\ discarded' = NoKey /\ recalled' = NoFuture
          /\ UNCHANGED <<callVars, twin, retry>>
    \/ \E k \in Keys :
          cache_discard(k) /\ discarded' = k /\ recalled' = NoFuture
          /\ UNCHANGED <<callVars, twin, retry>>
    \/ /\ cache_clear /\ discarded' = NoKey /\ recalled' = NoFuture
       /\ UNCHANGED <<callVars, twin, retry>>

SpecDiscard == Init /\ [][NextDiscard]_vars

\* ---------------------------------------------- calls written with arguments
\* `key = self._make_key(args, kwargs)` and then __call__ on that key.
CallWith(t, a) ==
    LET dk == make_key(a.args, a.kwds, typed)
        k == Intern(interned, dk)
    IN /\ IsNext(t)
       /\ maxsize = 0 \/ ~Unhashable(dk)
       /\ k \in Keys
       /\ Call(t, k)
       /\ interned' = IF k > Len(interned) THEN Append(interned, dk) ELSE interned
       /\ given' = [given EXCEPT ![t] = a]
       /\ UNCHANGED <<arg, typed, discarded, recalled, twin, retry>>

\* Seeded fault: the miss is counted before the key is derived.
CallUnhashable_CountsMiss(t, a) ==
    /\ IsNext(t)
    /\ maxsize # 0
    /\ Unhashable(make_key(a.args, a.kwds, typed))
    /\ misses' = misses + 1
    /\ pc' = [pc EXCEPT ![t] = "done"]
    /\ out' = [out EXCEPT ![t] = Exception(TypeError)]
    /\ given' = [given EXCEPT ![t] = a]
    /\ UNCHANGED <<maxsize, cache, in_flight, hits, future, key, fut, started,
                   produced, orphaned, accessOrder, discarded, recalled, arg, typed,
                   interned, via, twin, retry>>

\* MemoizedLRUAsyncCallable.__call__ and CachedLRUAsyncCallable.__call__ with arguments
\* that do not hash: `key = self._make_key(args, kwargs)`, the first statement, raises
\* TypeError and nothing after it runs.
CallUnhashable(t, a) ==
    /\ IsNext(t)
    /\ maxsize # 0
    /\ Unhashable(make_key(a.args, a.kwds, typed))
    /\ pc' = [pc EXCEPT ![t] = "done"]
    /\ out' = [out EXCEPT ![t] = Exception(TypeError)]
    /\ given' = [given EXCEPT ![t] = a]
    /\ UNCHANGED <<maxsize, cache, in_flight, hits, misses, future, key, fut, started,
                   produced, orphaned, accessOrder, discarded, recalled, arg, typed,
                   interned, via, twin, retry>>

\* cache_discard(*args, **kwargs); a key the cache never saw is not in the store.
DiscardWith(a) ==
    LET k == Intern(interned, make_key(a.args, a.kwds, typed))
    IN /\ k \in DOMAIN interned
       /\ cache_discard(k)
       /\ UNCHANGED aux

\* Seeded fault: the bound form forwards the arguments without the instance.
BoundArguments_DropsSelf(i, a) == a

\* LRUAsyncBoundCallable: `self._lru(self.__self__, *args, **kwargs)`
BoundArguments(i, a) == Arguments(<<Instance(i)>> \o a.args, a.kwds)

BoundCall(t, i, a) ==
    /\ CallWith(t, BoundArguments(i, a))
    /\ via' = [via EXCEPT ![t] = i]

BoundDiscard(i, a) == DiscardWith(BoundArguments(i, a))

\* The calls of the hashing specification: f(1), f(2), and calls passing a list alone,
\* after an int, or as a keyword's value.
HashingShapes ==
    {Arguments(<<IntValue(1)>>, <<>>),
     Arguments(<<IntValue(2)>>, <<>>),
     Arguments(<<ListValue(1)>>, <<>>),
     Arguments(<<IntValue(1), ListValue(1)>>, <<>>),
     Arguments(<<IntValue(1)>>, <<Kwd(1, ListValue(1))>>)}

InitHashing ==
    /\ maxsize \in Capacities
    /\ arg \in CapacityArgs
    /\ maxsize = async_lru_cache(arg)
    /\ typed \in BOOLEAN
    /\ Empty

\* A cache of any capacity called with arguments that hash and arguments that do not.
NextHashing ==
    \/ \E t \in Tasks, a \in HashingShapes : CallWith(t, a) /\ UNCHANGED via
    \/ \E t \in Tasks, a \in HashingShapes : CallUnhashable(t, a)
    \/ \E t \in Tasks : ProducerReturn(t) /\ UNCHANGED aux
    \/ \E t \in Tasks : ProducerRaise(t) /\ UNCHANGED aux
    \/ \E t \in Tasks : Resume(t) /\ UNCHANGED aux

SpecHashing == InitHashing /\ [][NextHashing]_vars

\* The calls of the key derivation specification: f(1) or f(1.0), alone or with the
\* keywords a=1, b=2 in either order.
PositionalArgs == {<<IntValue(1)>>, <<FloatValue(1)>>}
KeywordArgs ==
    {<<>>,
     <<Kwd(1, IntValue(1)), Kwd(2, IntValue(2))>>,
     <<Kwd(2, IntValue(2)), Kwd(1, IntValue(1))>>}
CallShapes == {Arguments(a, k) : a \in PositionalArgs, k \in KeywordArgs}

InitKeys ==
    /\ maxsize \in Capacities \ {0}
    /\ arg \in CapacityArgs
    /\ maxsize = async_lru_cache(arg)
    /\ typed \in BOOLEAN
    /\ Empty

\* A function wrapped with typed False or True and called with arguments.
NextKeys ==
    \/ \E t \in Tasks, a \in CallShapes : CallWith(t, a) /\ UNCHANGED via
    \/ \E t \in Tasks : ProducerReturn(t) /\ UNCHANGED aux
    \/ \E t \in Tasks : Resume(t) /\ UNCHANGED aux

SpecKeys == InitKeys /\ [][NextKeys]_vars

\* A method wrapped by the cache and called through its instances.
Instances == 1..NInstances
MethodArgs == {Arguments(<<IntValue(n)>>, <<>>) : n \in 1..MaxSize}

NextMethod ==
    \/ \E t \in Tasks, i \in Instances, a \in MethodArgs : BoundCall(t, i, a)
    \/ \E t \in Tasks : ProducerReturn(t) /\ UNCHANGED aux
    \/ \E t \in Tasks : Resume(t) /\ UNCHANGED aux
    \/ \E i \in Instances, a \in MethodArgs : BoundDiscard(i, a)

SpecMethod == Init /\ [][NextMethod]_vars

\* The cache built from any first argument of async_lru_cache.
ConstructorArgs == {Omitted, NoneArg, FuncArg} \cup {IntArg(n) : n \in (-1)..MaxSize}

InitConstruct ==
    /\ arg \in ConstructorArgs
    /\ maxsize = async_lru_cache(arg)
    /\ typed = FALSE
    /\ Empty

SpecConstruct == InitConstruct /\ [][NextNoClear]_vars

\* The cache with callers that may be cancelled while suspended.
NextCancel ==
    \/ \E t \in Tasks, k \in Keys : Call(t, k) /\ UNCHANGED aux
    \/ \E t \in Tasks : future[t] # Cancelled /\ ProducerReturn(t) /\ UNCHANGED aux
    \/ \E t \in Tasks : future[t] # Cancelled /\ ProducerRaise(t) /\ UNCHANGED aux
    \/ \E t \in Tasks : MemoizedReturnInvalidState(t) /\ UNCHANGED aux
    \/ \E t \in Tasks : CachedReturnInvalidState(t) /\ UNCHANGED aux
    \/ \E t \in Tasks : RaiseInvalidState(t) /\ UNCHANGED aux
    \/ \E t \in Tasks : Resume(t) /\ UNCHANGED aux
    \/ \E t \in Tasks : ResumeCancelled(t) /\ UNCHANGED aux
    \/ \E t \in Tasks : CancelOriginator(t) /\ UNCHANGED aux
    \/ \E t \in Tasks : CancelJoiner(t) /\ UNCHANGED aux
    \/ \E k \in Keys : cache_discard(k) /\ UNCHANGED aux
    \/ cache_clear /\ UNCHANGED aux

SpecCancel == Init /\ [][NextCancel]_vars

\* ------------------------------------- an unbounded and a bounded cache side by side
\* The capacity of the bounded cache: room for every key there is.
TwinMaxsize == NKeys

\* `if key not in self._cache: if len(self._cache) >= self._maxsize:
\*  self._cache.popitem(last=False); self._cache[key] = result`
StoreBounded(c, k, v, n) ==
    IF k \notin CacheKeys(c)
    THEN CacheSet(IF Len(c) >= n THEN popitem_first(c) ELSE c, k, v)
    ELSE c

\* CachedLRUAsyncCallable.__call__ up to its first suspension, on the cache s
TwinCall(s, t, k) ==
    IF k \in CacheKeys(s.cache)
    THEN [s EXCEPT !.hits = @ + 1,
                   !.cache = move_to_end(@, k),
                   !.out[t] = Result(CacheGet(s.cache, k)),
                   !.pc[t] = "done"]
    ELSE IF s.in_flight[k] # NoFuture
         THEN [s EXCEPT !.fut[t] = s.in_flight[k], !.pc[t] = "joined"]
         ELSE [s EXCEPT !.misses = @ + 1,
                        !.future[t] = Pending,
                        !.in_flight[k] = t,
                        !.fut[t] = t,
                        !.pc[t] = "producing"]

\* the producer returns: set_result, store, finally
TwinReturn(s, t, k) ==
    [s EXCEPT !.future[t] = Result(Value(t)),
              !.cache = StoreBounded(@, k, Value(t), TwinMaxsize),
              !.in_flight = Retire(@, k, t),
              !.out[t] = Result(Value(t)),
              !.pc[t] = "done"]

\* the producer raises: set_exception, raise, finally
TwinRaise(s, t, k) ==
    [s EXCEPT !.future[t] = Exception(Error(t)),
              !.in_flight = Retire(@, k, t),
              !.out[t] = Exception(Error(t)),
              !.pc[t] = "done"]

\* `return await self._in_flight[key]` resumes with the future's outcome
TwinResume(s, t) == [s EXCEPT !.out[t] = s.future[s.fut[t]], !.pc[t] = "done"]

\* cache_discard
TwinDiscard(s, k) == [s EXCEPT !.cache = CachePop(@, k)]

\* cache_clear
TwinClear(s) ==
    [s EXCEPT !.hits = 0, !.misses = 0, !.in_flight = RegistryClear(@), !.cache = <<>>]

\* An unbounded cache (the variables) and a bounded cache of capacity TwinMaxsize
\* (twin) given the same operations in the same order, the producer returning or
\* raising the same for both.
InitTwin ==
    /\ maxsize = MaxsizeNone
    /\ arg = NoneArg
    /\ typed = FALSE
    /\ Empty

NextTwin ==
    \/ \E t \in Tasks, k \in Keys :
          /\ MemoizedCall(t, k) /\ twin.pc[t] = "idle"
          /\ twin' = TwinCall(twin, t, k)
          /\ UNCHANGED <<discarded, recalled, callVars, retry>>
    \/ \E t \in Tasks :
          /\ MemoizedReturn(t) /\ twin.pc[t] = "producing"
          /\ twin' = TwinReturn(twin, t, key[t])
          /\ UNCHANGED <<discarded, recalled, callVars, retry>>
    \/ \E t \in Tasks :
          /\ MemoizedRaise(t) /\ twin.pc[t] = "producing"
          /\ twin' = TwinRaise(twin, t, key[t])
          /\ UNCHANGED <<discarded, recalled, callVars, retry>>
    \/ \E t \in Tasks :
          /\ Resume(t) /\ twin.pc[t] = "joined" /\ IsDone(twin.future[twin.fut[t]])
          /\ twin' = TwinResume(twin, t)
          /\ UNCHANGED <<discarded, recalled, callVars, retry>>
    \/ \E k \in Keys :
          /\ MemoizedDiscard(k)
          /\ twin' = TwinDiscard(twin, k)
          /\ UNCHANGED <<discarded, recalled, callVars, retry>>
    \/ /\ MemoizedClear
       /\ twin' = TwinClear(twin)
       /\ UNCHANGED <<discarded, recalled, callVars, retry>>

SpecTwin == InitTwin /\ [][NextTwin]_vars

\* --------------------------------------------------------------- helpers.tries
\* The largest `times` a function is wrapped with.
MaxTimes == 3
TimesArgs == (-1)..MaxTimes

\* What a function returns when it ends without a return statement.
PyNone == 0

\* The n-th attempt (n = time + 1) returns a value, or raises an exception, of its
\* own.
AttemptResult(n) == Result(n)
AttemptError(n) == Exception(n)

\* A call of the wrapper not yet made: `tried` is what the attempts made so far did.
NotCalled == [pc |-> "idle", time |-> 0, tried |-> <<>>, out |-> None]

\* tries(times)(f): the wrapper, with no call made of it yet.
tries(times) == [times |-> times, call |-> [t \in Tasks |-> NotCalled]]

\* range(times if times > 0 else 1)
Range(times) == IF times > 0 THEN times ELSE 1

othersVars == <<maxsize, cache, in_flight, hits, misses, future, pc, key, fut, out,
                started, produced, orphaned, accessOrder, discarded, recalled,
                callVars, twin>>

\* wrapper(*args, **kwargs) up to its first suspension: the loop is entered with
\* time = 0 and f is awaited.
wrapper(t) ==
    /\ retry.call[t].pc = "idle"
    /\ \A u \in Tasks : u < t => retry.call[u].pc # "idle"
    /\ retry' = [retry EXCEPT !.call[t].pc = "awaiting", !.call[t].time = 0]
    /\ UNCHANGED othersVars

\* `return await f(*args, **kwargs)`: f returned.
AttemptReturn(t) ==
    LET c == retry.call[t]
    IN /\ c.pc = "awaiting"
       /\ retry' = [retry EXCEPT !.call[t].pc = "done",
                                 !.call[t].tried = Append(@, AttemptResult(c.time + 1)),
                                 !.call[t].out = AttemptResult(c.time + 1)]
       /\ UNCHANGED othersVars

\* f raised: `except Exception as exc: if time >= times: raise exc`; otherwise the
\* loop goes on with the next `time`, and when the range is used up the function
\* ends, returning None.
AttemptRaise(t) ==
    LET c == retry.call[t]
        exc == AttemptError(c.time + 1)
    IN /\ c.pc = "awaiting"
       /\ retry' =
             IF c.time >= retry.times
             THEN [retry EXCEPT !.call[t].pc = "done",
                                !.call[t].tried = Append(@, exc),
                                !.call[t].out = exc]
             ELSE IF c.time + 1 < Range(retry.times)
                  THEN [retry EXCEPT !.call[t].time = c.time + 1,
                                     !.call[t].tried = Append(@, exc)]
                  ELSE [retry EXCEPT !.call[t].pc = "done",
                                     !.call[t].tried = Append(@, exc),
                                     !.call[t].out = Result(PyNone)]
       /\ UNCHANGED othersVars

\* A function wrapped with tries(times) and called by several tasks.
InitTries ==
    /\ maxsize = 0
    /\ arg = IntArg(0)
    /\ typed = FALSE
    /\ EmptyCache
    /\ retry \in {tries(n) : n \in TimesArgs}

NextTries ==
    \/ \E t \in Tasks : wrapper(t)
    \/ \E t \in Tasks : AttemptReturn(t)
    \/ \E t \in Tasks : AttemptRaise(t)

SpecTries == InitTries /\ [][NextTries]_vars

\* Liveness: the event loop runs every callback that is ready, so a task whose
\* awaited future is done is resumed.
FairSpec == Spec /\ \A t \in Tasks : WF_vars(Resume(t) /\ UNCHANGED aux)

\* ---------------------------------------------------- what a call went through
Cached == maxsize # 0

\* t's call took the miss path of a cached variant: it created future t.
Originated(t) == fut[t] = t

\* t's call joined the pending entry of another call.
JoinedOn(t) == fut[t] \notin {NoFuture, t}

\* t's call was answered from the store.
WasHit(t) == Cached /\ pc[t] = "done" /\ fut[t] = NoFuture

InFlight(k) == {t \in Tasks : pc[t] = "producing" /\ key[t] = k}

Called == {t \in Tasks : pc[t] # "idle"}

RECURSIVE Sum(_, _)
Sum(f, S) == IF S = {} THEN 0 ELSE LET x == CHOOSE y \in S : TRUE IN f[x] + Sum(f, S \ {x})

\* ------------------------------------------------------------------ C1
\* C1: with no cache_clear issued, while a producer invocation o for a key is still
\* suspended every later call with that key joins o's pending entry instead of
\* invoking the producer (o is the key's only invocation in flight), and every
\* caller that joined o returns exactly what o's invocation produced.
C1_SingleFlight ==
    Cached =>
        /\ \A o \in Tasks : pc[o] = "producing" =>
              /\ InFlight(key[o]) = {o}
              /\ key[o] \notin CacheKeys(cache)
              /\ \A t \in Tasks : (t > o /\ pc[t] # "idle" /\ key[t] = key[o]) =>
                                      (pc[t] = "joined" /\ fut[t] = o)
        /\ \A t \in Tasks : (JoinedOn(t) /\ pc[t] = "done") =>
              /\ key[fut[t]] = key[t]
              /\ out[t] = produced[fut[t]]
              /\ out[t] = out[fut[t]]

\* C1 witness: three callers of one key, one invocation, all returned its value.
C1_Witness ==
    /\ Cached
    /\ \E o \in Tasks : \E t1, t2 \in Tasks \ {o} :
          /\ t1 # t2
          /\ fut[o] = o /\ fut[t1] = o /\ fut[t2] = o
          /\ pc[o] = "done" /\ pc[t1] = "done" /\ pc[t2] = "done"
          /\ started[key[o]] = 1
          /\ out[o] = Result(Value(o)) /\ out[t1] = out[o] /\ out[t2] = out[o]

\* ------------------------------------------------------------------ C2
\* C2 (as claimed): at most one producer invocation per key is in flight, under any
\* interleaving of call, cache_discard and cache_clear.
C2_AtMostOneInFlight ==
    Cached => \A k \in Keys : Cardinality(InFlight(k)) <= 1

\* C2 (amended): at most one in-flight producer invocation per key still has its
\* pending entry; every other in-flight invocation of the key is one whose pending
\* entry a cache_clear dropped.
C2_AtMostOneRegisteredInFlight ==
    Cached => \A k \in Keys :
        /\ Cardinality(InFlight(k) \ orphaned) <= 1
        /\ \A t \in InFlight(k) : t \notin orphaned <=> in_flight[k] = t

\* C2 witness: after a cache_clear, two invocations of one key in flight at once.
C2_Witness ==
    /\ Cached
    /\ \E k \in Keys : \E a, b \in InFlight(k) :
          a # b /\ a \in orphaned /\ in_flight[k] = b

\* ------------------------------------------------------------------ C3
\* C3: the originating caller returns or raises exactly what its producer
\* invocation returned or raised, its future holds that same outcome, and every
\* caller that joined the pending entry gets that same outcome (the same value, or
\* the same exception object) once it has resumed, never before the originator.
C3_SameOutcome ==
    Cached =>
        /\ \A o \in Tasks : (Originated(o) /\ pc[o] = "done") =>
              /\ IsDone(produced[o])
              /\ out[o] = produced[o]
              /\ future[o] = produced[o]
        /\ \A t \in Tasks : (JoinedOn(t) /\ pc[t] = "done") =>
              /\ pc[fut[t]] = "done"
              /\ out[t] = out[fut[t]]

\* C3 witness: a joiner that received the exception its originator raised.
C3_Witness ==
    /\ Cached
    /\ \E t \in Tasks :
          /\ JoinedOn(t) /\ pc[t] = "done"
          /\ out[t] = Exception(Error(fut[t]))
          /\ out[fut[t]] = out[t]

\* ------------------------------------------------------------------ C4
\* The next call of o's key made after o's call ended: the lowest later caller of
\* the key that did not join o.
LaterCalls(o) ==
    {u \in Tasks : u > o /\ pc[u] # "idle" /\ key[u] = key[o] /\ fut[u] # o}

NextCall(o) == CHOOSE u \in LaterCalls(o) : \A w \in LaterCalls(o) : u <= w

Failed(o) == Cached /\ Originated(o) /\ pc[o] = "done" /\ out[o].kind = "exception"

\* C4, in every state: a stored value is the result some producer invocation of
\* its key returned; the call that follows a failed call of the same key invoked
\* the producer; a failed call's pending entry is gone; misses counts the
\* producer invocations.
C4_FailureNotCachedState ==
    Cached =>
        /\ \A i \in DOMAIN cache :
              /\ produced[cache[i].val] = Result(cache[i].val)
              /\ key[cache[i].val] = cache[i].key
        /\ \A o \in Tasks : (Failed(o) /\ LaterCalls(o) # {}) => Originated(NextCall(o))
        /\ \A o \in Tasks : Failed(o) => in_flight[key[o]] # o
        /\ misses = Cardinality({t \in Tasks : Originated(t)})
        /\ misses = Sum(started, Keys)

\* C4, in every step: the producer raising changes neither the store nor the
\* counters; starting the invocation leaves the store alone and adds one miss.
C4_FailureNotCachedStep ==
    Cached => \A t \in Tasks :
        /\ (pc[t] = "producing" /\ pc'[t] = "done" /\ out'[t].kind = "exception") =>
              (cache' = cache /\ hits' = hits /\ misses' = misses)
        /\ (pc[t] = "idle" /\ pc'[t] = "producing") =>
              (cache' = cache /\ hits' = hits /\ misses' = misses + 1)

\* C4: a producer failure is never cached. The step in which the producer raises
\* leaves the store and both counters as they were; the step that started the
\* call left the store as it was and added one miss; no stored value is anything
\* but the result a producer invocation of that key returned; and the next call
\* with the failed call's arguments invokes the producer again and counts a miss
\* (with no cache_clear, misses equals the number of producer invocations).
C4_FailureNotCached == []C4_FailureNotCachedState /\ [][C4_FailureNotCachedStep]_vars

\* C4 witness: call(k) raised, the store is empty, and the second call(k) invoked
\* the producer again: two misses.
C4_Witness ==
    /\ Cached
    /\ \E o \in Tasks :
          /\ Failed(o)
          /\ LaterCalls(o) # {}
          /\ Failed(NextCall(o))
          /\ cache = <<>>
          /\ misses = 2
          /\ started[key[o]] = 2

\* ------------------------------------------------------------------ C5
\* C5, in every step: a new key stored into a full store removes exactly the least
\* recently accessed key; stored while there is room, it removes nothing.
C5_EvictsLRUStep ==
    maxsize > 0 =>
        LET new == CacheKeys(cache') \ CacheKeys(cache)
            gone == CacheKeys(cache) \ CacheKeys(cache')
        IN /\ (new # {} /\ Len(cache) >= maxsize) => gone = {Head(accessOrder)}
           /\ (new # {} /\ Len(cache) < maxsize) => gone = {}
           /\ Cardinality(new) <= 1

\* C5, in every state: the recency record holds exactly the stored keys.
C5_RecencyRecord ==
    maxsize > 0 =>
        /\ Len(accessOrder) = Len(cache)
        /\ CacheKeys(cache) = {accessOrder[i] : i \in DOMAIN accessOrder}

\* C5: in the bounded variant, a step that stores a new key while the store holds
\* maxsize entries removes exactly the least recently accessed key (a hit or an
\* insertion being an access) and nothing else; a step that stores a new key while
\* there is room removes nothing; and the store's keys are the recency record's.
C5_EvictsLRU == []C5_RecencyRecord /\ [][C5_EvictsLRUStep]_vars

\* C5 witness: capacity 2; call(1), call(2), a hit on call(1), then call(3): key 2,
\* inserted last but accessed least recently, is the one absent.
C5_Witness ==
    /\ maxsize = 2
    /\ NTasks >= 4 /\ NKeys >= 3
    /\ \A t \in 1..4 : pc[t] = "done"
    /\ key[1] = 1 /\ key[2] = 2 /\ key[3] = 1 /\ key[4] = 3
    /\ out[1] = Result(Value(1)) /\ out[2] = Result(Value(2))
    /\ WasHit(3) /\ out[3] = Result(Value(1))
    /\ out[4] = Result(Value(4))
    /\ hits = 1 /\ misses = 3
    /\ cache = <<Entry(1, Value(1)), Entry(3, Value(4))>>

\* ------------------------------------------------------------------ C6
\* C6: the bounded store never holds more than maxsize entries (nor one key
\* twice), and cache_info never reports a larger size.
C6_SizeBounded ==
    maxsize > 0 =>
        /\ Len(cache) <= maxsize
        /\ Cardinality(CacheKeys(cache)) = Len(cache)
        /\ cache_info.currsize <= maxsize

\* C6 witness: more distinct keys were produced than the store can hold, and the
\* store is full.
C6_Witness ==
    /\ maxsize > 0
    /\ Len(cache) = maxsize
    /\ Cardinality({key[t] : t \in {u \in Tasks : Originated(u) /\ pc[u] = "done"
                                                  /\ out[u].kind = "result"}}) > maxsize

\* ------------------------------------------------------------------ C7
\* C7: with capacity 0 and no cache_clear, every call made has invoked the producer
\* itself (none joined, none was answered from a store), so the calls made, the
\* producer invocations and the misses counted are equal in number; every finished
\* call returned what its own invocation produced; hits and size stay 0.
C7_PassThrough ==
    maxsize = 0 =>
        /\ \A t \in Called : pc[t] \in {"producing", "done"} /\ fut[t] = NoFuture
        /\ \A t \in Tasks : pc[t] = "done" =>
              (out[t] = produced[t] /\ out[t] \in {Result(Value(t)), Exception(Error(t))})
        /\ Sum(started, Keys) = Cardinality(Called)
        /\ misses = Cardinality(Called)
        /\ cache_info.misses = misses
        /\ hits = 0 /\ cache_info.hits = 0
        /\ cache = <<>> /\ cache_info.currsize = 0
        /\ \A k \in Keys : in_flight[k] = NoFuture

\* C7 witness: three concurrent identical calls, three invocations in flight.
C7_Witness ==
    /\ maxsize = 0
    /\ \E k \in Keys : Cardinality(InFlight(k)) >= 3 /\ started[k] >= 3
    /\ misses >= 3

\* ------------------------------------------------------------------ C8
\* C8, in every step: joining and resuming change no counter; creating the
\* pending entry adds one miss and no hit.
C8_JoinCountsNothingStep ==
    Cached => \A t \in Tasks :
        /\ (pc[t] = "idle" /\ pc'[t] = "joined") => (hits' = hits /\ misses' = misses)
        /\ (pc[t] = "joined" /\ pc'[t] = "done") => (hits' = hits /\ misses' = misses)
        /\ (pc[t] = "idle" /\ pc'[t] = "producing") =>
              (hits' = hits /\ misses' = misses + 1)

\* C8, in every state: identical calls, all still pending, one miss and no hit.
C8_OneMissState ==
    (/\ Cached
     /\ Called # {}
     /\ orphaned = {}
     /\ \A t \in Called : pc[t] \in {"producing", "joined"}
     /\ \A t, u \in Called : key[t] = key[u])
    => (misses = 1 /\ hits = 0)

\* C8: a call that joins a pending entry changes neither counter, when it joins and
\* when it resumes; the call that creates the pending entry adds exactly one miss
\* and no hit. So identical calls that are all still pending on an empty cache
\* (their entry not dropped by a cache_clear) have counted one miss and no hit.
C8_JoinCountsNothing == []C8_OneMissState /\ [][C8_JoinCountsNothingStep]_vars

\* C8 witness: one call producing, two joined on it: one miss, no hit.
C8_Witness ==
    /\ Cached
    /\ \E o \in Tasks :
          /\ pc[o] = "producing"
          /\ Cardinality({t \in Tasks : pc[t] = "joined" /\ fut[t] = o}) >= 2
    /\ misses = 1 /\ hits = 0

\* ------------------------------------------------------------------ C9
\* C9, one step: what holds right after cache_clear.
C9_ClearResetsStep ==
    cache_clear =>
        /\ cache_info'.hits = 0
        /\ cache_info'.misses = 0
        /\ cache_info'.currsize = 0
        /\ hits' = 0 /\ misses' = 0
        /\ cache' = <<>>
        /\ \A k \in Keys : in_flight'[k] = NoFuture

\* C9: a cache_clear step, from any reachable state (producers in flight or not),
\* ends in a state where cache_info reports no hit, no miss and size 0, and the
\* store and the in-flight registry are empty.
C9_ClearResets == [][C9_ClearResetsStep]_vars

\* C9 witness: cleared while a producer was in flight, with something stored and
\* counted before: everything is empty and zero, the producer still in flight.
C9_Witness ==
    /\ Cached
    /\ \E t \in Tasks : pc[t] = "producing" /\ t \in orphaned
    /\ \E t \in Tasks : pc[t] = "done" /\ Originated(t) /\ out[t].kind = "result"
    /\ \E t \in Tasks : WasHit(t)
    /\ hits = 0 /\ misses = 0 /\ cache = <<>>
    /\ \A k \in Keys : in_flight[k] = NoFuture

\* ----------------------------------------------------------------- C10
\* C10, in every state: a cleared invocation that has completed resolved its
\* future with the producer's outcome; its joiners got that outcome or can resume.
C10_ClearedState ==
    Cached => \A o \in orphaned :
        /\ pc[o] = "done" => (IsDone(produced[o]) /\ out[o] = produced[o]
                              /\ future[o] = produced[o])
        /\ \A t \in Tasks \ {o} : fut[t] = o =>
              /\ pc[t] \in {"joined", "done"}
              /\ pc[t] = "done" => (out[t] = produced[o] /\ pc[o] = "done")
              /\ (pc[t] = "joined" /\ pc[o] = "done") => ENABLED Resume(t)

\* C10, eventually: a joiner of a cleared entry whose originator has finished gets
\* the producer's outcome.
C10_ClearedLive ==
    \A t \in Tasks :
        (pc[t] = "joined" /\ fut[t] \in orphaned /\ pc[fut[t]] = "done")
            ~> (pc[t] = "done" /\ JoinedOn(t) /\ out[t] = produced[fut[t]])

\* C10: when cache_clear has dropped the pending entry of an invocation that was in
\* flight, the invocation's completion still resolves the future the awaiting
\* callers hold: the originating caller gets its producer's outcome, every caller
\* that joined gets that same outcome, and a joiner whose originator has finished
\* is resumed (it does not wait forever).
C10_ClearKeepsOutcome == []C10_ClearedState /\ C10_ClearedLive

\* C10 witness: the entry was cleared while the producer was in flight and a caller
\* was awaiting it; both have got the producer's result.
C10_Witness ==
    /\ Cached
    /\ \E o \in orphaned : \E t \in Tasks \ {o} :
          /\ fut[t] = o
          /\ pc[o] = "done" /\ pc[t] = "done"
          /\ out[o] = Result(Value(o)) /\ out[t] = Result(Value(o))

\* ------------------------------------------------------------------ C11
\* C11 (as claimed): a successful completion of a producer invocation whose key was
\* cleared (cache_clear while the invocation was in flight) or discarded
\* (cache_discard of its key as the step before the completion) stores nothing: the
\* key is absent from the store right after the completion.
C11_NoRepopulation ==
    [][\A t \in Tasks :
          (Cached /\ ProducerReturn(t) /\ (t \in orphaned \/ discarded = key[t]))
              => key[t] \notin CacheKeys(cache')]_vars

\* ------------------------------------------------------------------ C12
\* C12 (as claimed): a call with key k that directly follows cache_discard of k
\* always starts a new producer invocation for k.
C12_DiscardThenCallInvokes ==
    [][\A t \in Tasks, k \in Keys :
          (Cached /\ discarded = k /\ Call(t, k))
              => (started'[k] = started[k] + 1 /\ pc'[t] = "producing")]_vars

C12_NoStaleHitStep ==
    \A t \in Tasks, k \in Keys :
        (Cached /\ discarded = k /\ Call(t, k)) =>
            /\ hits' = hits
            /\ pc'[t] # "done"
            /\ IF in_flight[k] = NoFuture
               THEN /\ started'[k] = started[k] + 1
                    /\ misses' = misses + 1
                    /\ pc'[t] = "producing"
                    /\ fut'[t] = t
               ELSE /\ started' = started
                    /\ misses' = misses
                    /\ pc'[t] = "joined"
                    /\ fut'[t] = in_flight[k]
                    /\ pc[in_flight[k]] = "producing"

\* C12 (amended): a call with key k that directly follows cache_discard of k is never
\* answered from the store; when no pending entry for k is registered it starts a
\* new producer invocation for k, otherwise it joins the pending entry of the
\* invocation in flight and invokes nothing.
C12_DiscardThenCallNoStaleHit == [][C12_NoStaleHitStep]_vars

\* C12 witness: k was stored, was discarded, and the call that followed at once is
\* running the producer again.
C12_Witness ==
    /\ Cached
    /\ recalled # NoFuture
    /\ pc[recalled] = "producing"
    /\ started[key[recalled]] = 2
    /\ \E o \in Tasks : o # recalled /\ key[o] = key[recalled] /\ out[o].kind = "result"

\* ------------------------------------------------------------------ C13
C13_DiscardFrameStep ==
    \A k \in Keys :
        cache_discard(k) =>
            /\ cache' = SelectSeq(cache, LAMBDA e : e.key # k)
            /\ (k \notin CacheKeys(cache) => cache' = cache)
            /\ accessOrder' = SelectSeq(accessOrder, LAMBDA x : x # k)
            /\ hits' = hits /\ misses' = misses
            /\ cache_info'.hits = cache_info.hits /\ cache_info'.misses = cache_info.misses
            /\ in_flight' = in_flight
            /\ future' = future
            /\ pc' = pc /\ fut' = fut /\ out' = out
            /\ started' = started /\ produced' = produced

\* C13: a cache_discard step for key k removes the store entry of k, if there is
\* one, and changes nothing else: the other entries and their order, the recency
\* order of the remaining keys, the counters, every pending entry of the registry
\* (the one of k too) and every call in progress; with k absent it changes nothing.
C13_DiscardFrame == [][C13_DiscardFrameStep]_vars

\* C13 witness: k was discarded while stored beside another key and while a pending
\* entry for k was registered; the entry is gone, the pending entry and the other
\* key are still there.
C13_Witness ==
    /\ Cached
    /\ discarded # NoKey
    /\ discarded \notin CacheKeys(cache)
    /\ \E o \in Tasks : key[o] = discarded /\ pc[o] = "done" /\ Originated(o)
                          /\ out[o].kind = "result" /\ o \in orphaned
    /\ in_flight[discarded] # NoFuture
    /\ pc[in_flight[discarded]] = "producing"
    /\ Len(cache) >= 1

\* ------------------------------------------------------------------ C14
\* C14: a pending entry never outlives the call that created it: once the
\* originating call has ended (the producer returned, the producer raised, or the
\* caller was cancelled) the registry does not hold its entry, so every registered
\* entry belongs to a call still running its producer and a call that joins never
\* joins the entry of a call that has ended.
C14_EntryEndsWithCall ==
    Cached =>
        /\ \A o \in Tasks : (Originated(o) /\ pc[o] \in {"done", "cancelled"}) =>
              in_flight[key[o]] # o
        /\ \A k \in Keys : in_flight[k] # NoFuture =>
              (pc[in_flight[k]] = "producing" /\ key[in_flight[k]] = k)

\* C14 witness: an originating caller was cancelled, and a later call for the same
\* key, finding nothing stored, is running a fresh producer invocation.
C14_Witness ==
    /\ Cached
    /\ \E o, t \in Tasks :
          /\ Originated(o) /\ pc[o] = "cancelled"
          /\ t > o /\ key[t] = key[o]
          /\ Originated(t) /\ pc[t] = "producing"
          /\ in_flight[key[t]] = t
          /\ key[t] \notin CacheKeys(cache)

\* ------------------------------------------------------------------ C15
\* C15 (as claimed): cancelling a caller that awaits a joined pending entry affects
\* only that caller: the originating caller returns what its producer returned, and
\* every other caller that joined the entry and has ended received that result,
\* not a cancellation or another error.
C15_JoinerCancelIsLocal ==
    Cached =>
        /\ \A o \in Tasks :
              (Originated(o) /\ pc[o] = "done" /\ produced[o].kind = "result") =>
                  out[o] = produced[o]
        /\ \A t \in Tasks : (JoinedOn(t) /\ pc[t] = "done") =>
              (out[t].kind # "cancelled" /\ out[t] = produced[fut[t]])

\* ------------------------------------------------------------------ C16
\* C16, in every step of the unbounded cache.
C16_NoEvictionStep ==
    maxsize = MaxsizeNone =>
        /\ \A k \in CacheKeys(cache) \ CacheKeys(cache') : cache_discard(k) \/ cache_clear
        /\ \A t \in Tasks : ProducerReturn(t) =>
              /\ CacheKeys(cache') = CacheKeys(cache) \cup {key[t]}
              /\ cache_info'.currsize =
                    cache_info.currsize + (IF key[t] \in CacheKeys(cache) THEN 0 ELSE 1)
        /\ \A t \in Tasks, k \in Keys : (Call(t, k) /\ k \in CacheKeys(cache)) =>
              /\ started' = started
              /\ hits' = hits + 1 /\ misses' = misses
              /\ pc'[t] = "done"
              /\ out'[t] = Result(CacheGet(cache, k))
              /\ cache' = cache

\* C16, in every state of the unbounded cache: the reported size is the number of
\* stored keys.
C16_SizeCountsKeys ==
    maxsize = MaxsizeNone => cache_info.currsize = Cardinality(CacheKeys(cache))

\* C16: in an unbounded cache (capacity None) a stored key leaves the store only by
\* a cache_discard of that key or by a cache_clear; every successful completion
\* adds its key (the size grows by one for a key not yet stored, no other key
\* leaves), so that successful calls for M distinct keys with no discard or clear
\* leave size M; and a call for a stored key is a hit that returns the stored
\* value without invoking the producer.
C16_UnboundedKeepsAll == []C16_SizeCountsKeys /\ [][C16_NoEvictionStep]_vars

\* C16 witness: every key of the model was called successfully and is stored, and a
\* later call for one of them was a hit.
C16_Witness ==
    /\ maxsize = MaxsizeNone
    /\ CacheKeys(cache) = Keys
    /\ cache_info.currsize = NKeys
    /\ \A k \in Keys : started[k] = 1
    /\ \E t \in Tasks : WasHit(t) /\ out[t].kind = "result"

\* ------------------------------------------------------------------ C17
\* C17, in every state of a cache that wraps a method.
C17_OneCacheForAllInstances ==
    /\ \A t \in Called :
          /\ via[t] \in Instances
          /\ given[t].args[1] = Instance(via[t])
          /\ \A u \in Called :
                key[t] = key[u] <=> (via[t] = via[u] /\ Tail(given[t].args) = Tail(given[u].args))
    /\ Cached =>
          /\ misses = Cardinality({t \in Called : Originated(t)})
          /\ hits = Cardinality({t \in Called : WasHit(t)})
    /\ maxsize > 0 => cache_info.currsize <= maxsize

\* C17, in every cache_discard made through an instance.
C17_DiscardStep ==
    \A i \in Instances, a \in MethodArgs :
        BoundDiscard(i, a) =>
            \A t \in Called : key[t] \in CacheKeys(cache) \ CacheKeys(cache') =>
                (via[t] = i /\ Tail(given[t].args) = a.args)

\* C17: when the cache wraps a method, the instance is the first positional argument
\* of every call and is part of the key, for call and for cache_discard: two calls
\* share a key exactly when they are on the same instance with the same arguments,
\* and a discard through an instance removes only an entry of that instance with
\* those arguments; all instances share the counters (every call of every instance
\* is counted once) and the capacity (the entries of all instances together never
\* exceed it).
C17_InstanceInKey == []C17_OneCacheForAllInstances /\ [][C17_DiscardStep]_vars

\* C17 witness: with capacity 2, a.meth(1), a.meth(2), b.meth(1) were called in that
\* order, each after the other had returned: the size is 2 and (a, 1) is evicted.
C17_Witness ==
    /\ maxsize = 2
    /\ via[1] = 1 /\ given[1].args = <<Instance(1), IntValue(1)>>
    /\ via[2] = 1 /\ given[2].args = <<Instance(1), IntValue(2)>>
    /\ via[3] = 2 /\ given[3].args = <<Instance(2), IntValue(1)>>
    /\ \A t \in 1..3 : pc[t] = "done" /\ Originated(t)
    /\ pc[4] = "idle"
    /\ cache_info.currsize = 2
    /\ CacheKeys(cache) = {key[2], key[3]}
    /\ key[1] \notin CacheKeys(cache)
    /\ misses = 3

\* ---------------------------------------------------- calls with equal arguments
\* The keyword arguments as a mapping: the name/value pairs, whatever their order.
KwdSet(kwds) == {kwds[i] : i \in DOMAIN kwds}

\* Equal in value, argument by argument (1 and 1.0 are equal in value).
SameValues(a, b) ==
    /\ Len(a.args) = Len(b.args)
    /\ \A i \in DOMAIN a.args : PyEq(a.args[i], b.args[i])
    /\ Len(a.kwds) = Len(b.kwds)
    /\ \A i \in DOMAIN a.kwds :
          a.kwds[i].name = b.kwds[i].name /\ PyEq(a.kwds[i].value, b.kwds[i].value)

SameTypes(a, b) ==
    /\ \A i \in DOMAIN a.args : a.args[i].type = b.args[i].type
    /\ \A i \in DOMAIN a.kwds : a.kwds[i].value.type = b.kwds[i].value.type

\* ------------------------------------------------------------------ C18
\* C18 (as claimed): two calls with the same positional arguments and the same
\* keyword name/value pairs, in whatever order the keywords were written, have the
\* same key, so the key is invoked once for both.
C18_KeywordOrderIrrelevant ==
    \A t \in Called, u \in Called :
        (given[t].args = given[u].args /\ KwdSet(given[t].kwds) = KwdSet(given[u].kwds))
            => key[t] = key[u]

\* ------------------------------------------------------------------ C19
\* C19: with typed=True, two calls whose arguments are equal in value but differ in
\* type have different keys (and two calls equal in value and in type have the same
\* key); with typed=False no type is put into the key, which holds the positional
\* arguments, the keyword mark and the keyword items only, and calls equal in value
\* that are written with more than the one positional argument have the same key.
C19_TypedKeys ==
    /\ typed =>
          \A t \in Called, u \in Called :
              SameValues(given[t], given[u]) =>
                  (key[t] = key[u] <=> SameTypes(given[t], given[u]))
    /\ ~typed =>
          /\ \A i \in DOMAIN interned : \A j \in DOMAIN interned[i].seq :
                interned[i].seq[j].type # "type"
          /\ \A t \in Called :
                Len(interned[key[t]].seq)
                    = Len(given[t].args)
                      + (IF given[t].kwds = <<>> THEN 0 ELSE 1 + 2 * Len(given[t].kwds))
          /\ \A t \in Called, u \in Called :
                (SameValues(given[t], given[u]) /\ given[t].kwds # <<>>) => key[t] = key[u]

\* C19 witness: typed=True, f(1, a=1, b=2) and f(1.0, a=1, b=2) both returned and are
\* stored under two keys.
C19_Witness ==
    /\ typed
    /\ \E t \in Called, u \in Called :
          /\ given[t].args = <<IntValue(1)>> /\ given[u].args = <<FloatValue(1)>>
          /\ given[t].kwds # <<>> /\ given[t].kwds = given[u].kwds
          /\ pc[t] = "done" /\ pc[u] = "done"
          /\ key[t] # key[u]
          /\ {key[t], key[u]} \subseteq CacheKeys(cache)
          /\ cache_info.currsize >= 2

\* ------------------------------------------------------------------ C20
\* `if maxsize is None: Memoized...; elif maxsize == 0: Uncached...; else: Cached...`
Variant ==
    IF maxsize = MaxsizeNone THEN "Memoized"
    ELSE IF maxsize = 0 THEN "Uncached"
    ELSE "Cached"

\* C20 (as claimed): capacity omitted or None gives the unbounded cache, capacity 0
\* the pass-through cache, a positive n the bounded cache reporting capacity n.
C20_VariantByCapacity ==
    /\ arg.kind \in {"omitted", "none"} =>
          (Variant = "Memoized" /\ cache_info.maxsize = MaxsizeNone)
    /\ (arg.kind = "int" /\ arg.n = 0) =>
          (Variant = "Uncached" /\ cache_info.currsize = 0)
    /\ (arg.kind = "int" /\ arg.n > 0) =>
          (Variant = "Cached" /\ cache_info.maxsize = arg.n /\ cache_info.currsize <= arg.n)

\* C20 (amended): capacity None gives the unbounded cache; capacity omitted, or the
\* bare decorator, gives the bounded cache of capacity 128; capacity 0 or negative
\* gives the pass-through cache; a positive n gives the bounded cache reporting
\* capacity n.
C20_VariantByArgument ==
    /\ arg.kind = "none" =>
          (Variant = "Memoized" /\ cache_info.maxsize = MaxsizeNone)
    /\ arg.kind \in {"omitted", "callable"} =>
          /\ Variant = "Cached"
          /\ cache_info.maxsize = DefaultMaxsize
          /\ cache_info.currsize <= DefaultMaxsize
    /\ (arg.kind = "int" /\ arg.n <= 0) =>
          /\ Variant = "Uncached"
          /\ cache_info.maxsize = 0 /\ cache_info.currsize = 0 /\ cache_info.hits = 0
          /\ cache = <<>>
    /\ (arg.kind = "int" /\ arg.n > 0) =>
          (Variant = "Cached" /\ cache_info.maxsize = arg.n /\ cache_info.currsize <= arg.n)

\* C20 witness: built with the capacity left out, the cache reports capacity 128 and
\* holds every key of the model, with a hit on one of them.
C20_Witness ==
    /\ arg = Omitted
    /\ cache_info.maxsize = DefaultMaxsize
    /\ cache_info.currsize = NKeys
    /\ cache_info.hits >= 1

\* ------------------------------------------------------------------ C21
\* C21: async_lru_cache used as a bare decorator (the function passed directly) or
\* called with no argument builds the bounded variant, and its cache_info reports
\* maxsize 128 in every state.
C21_DefaultIs128 ==
    (arg = FuncArg \/ arg = Omitted) =>
        /\ Variant = "Cached"
        /\ maxsize > 0
        /\ cache_info.maxsize = 128
        /\ cache_info.currsize <= 128

\* C21 witness: the bare decorator's cache, reporting 128, has stored a value and
\* answered a call from the store.
C21_Witness ==
    /\ arg = FuncArg
    /\ cache_info.maxsize = 128
    /\ cache_info.currsize >= 1
    /\ \E t \in Tasks : WasHit(t)

\* ------------------------------------------------------------------ C22
\* The arguments of a call all hash.
HashableArgs(a) ==
    /\ \A i \in DOMAIN a.args : a.args[i].type # "list"
    /\ \A i \in DOMAIN a.kwds : a.kwds[i].value.type # "list"

\* The step in which task t's call is made with the arguments a.
CalledWith(t, a) == pc[t] = "idle" /\ pc'[t] # "idle" /\ given'[t] = a

\* The call raised the TypeError at once and changed nothing in the cache.
FailedOnKey(t) ==
    /\ pc'[t] = "done"
    /\ out'[t] = Exception(TypeError)
    /\ UNCHANGED <<hits, misses, cache, in_flight, started, future, produced>>

\* C22 as stated: a call whose arguments do not hash fails at once with the key error,
\* the producer not invoked and counters, store and registry unchanged, whatever the
\* cache's capacity.
C22_UnhashableCallFails ==
    [][\A t \in Tasks, a \in HashingShapes :
          (CalledWith(t, a) /\ ~HashableArgs(a)) => FailedOnKey(t)]_vars

\* C22 as amended: in a cache that stores results (capacity None or positive) a call
\* whose arguments do not hash fails at once with the key error, the producer not
\* invoked and counters, store and registry unchanged.
C22_UnhashableCallFailsWhenCached ==
    [][\A t \in Tasks, a \in HashingShapes :
          (Cached /\ CalledWith(t, a) /\ ~HashableArgs(a)) => FailedOnKey(t)]_vars

\* C22 witness: in a cache that has counted a miss, a call passing a list has ended
\* with the TypeError.
C22_Witness ==
    /\ Cached
    /\ misses >= 1
    /\ \E t \in Tasks :
          /\ pc[t] = "done"
          /\ ~HashableArgs(given[t])
          /\ out[t] = Exception(TypeError)
          /\ key[t] = NoKey

\* ------------------------------------------------------------------ C23
\* C23 (as claimed): in the bounded cache, a successful completion for a key that is
\* already in the store replaces the stored value by the new result and makes the
\* entry the most recent one; the size stays the same and nothing is evicted.
C23_CompletionReplaces ==
    [][\A t \in Tasks :
          (maxsize > 0 /\ CachedReturn(t) /\ key[t] \in CacheKeys(cache)) =>
              /\ CacheGet(cache', key[t]) = Value(t)
              /\ cache'[Len(cache')].key = key[t]
              /\ Len(cache') = Len(cache)
              /\ CacheKeys(cache') = CacheKeys(cache)]_vars

\* ------------------------------------------------------------------ C24
\* C24, one step: the call of task t with the stored key k.
C24_HitStep(t, k) ==
    (Cached /\ Call(t, k) /\ k \in CacheKeys(cache)) =>
        /\ started' = started /\ produced' = produced
        /\ hits' = hits + 1 /\ misses' = misses
        /\ in_flight' = in_flight /\ future' = future
        /\ pc'[t] = "done" /\ fut'[t] = NoFuture
        /\ out'[t] = Result(CacheGet(cache, k))
        /\ \A u \in Tasks \ {t} : pc'[u] = pc[u] /\ out'[u] = out[u] /\ fut'[u] = fut[u]
        /\ cache' = IF maxsize > 0
                    THEN SelectSeq(cache, LAMBDA e : e.key # k)
                             \o <<Entry(k, CacheGet(cache, k))>>
                    ELSE cache

\* C24: a call for a stored key invokes no producer and changes nothing but the hit
\* counter, which grows by one, and, in the bounded cache, the order of the store,
\* where the entry becomes the most recent one (the keys, the values and the order
\* of the other entries stay); the misses, the registry and every future are as
\* before, and the call has returned the stored value in that same step, without
\* being suspended.
C24_HitTouchesOnlyHits == [][\A t \in Tasks, k \in Keys : C24_HitStep(t, k)]_vars

\* C24 witness: capacity 2, two keys stored, and one hit so far, on the key stored
\* first: its entry is now the last one, behind the entry of a later invocation.
C24_Witness ==
    /\ maxsize = 2
    /\ Len(cache) = 2
    /\ hits = 1
    /\ cache[2].val < cache[1].val
    /\ \E t \in Tasks : WasHit(t) /\ key[t] = cache[2].key /\ out[t] = Result(cache[2].val)

\* ------------------------------------------------------------------ C25
\* C25, one step.
C25_CountersStep ==
    /\ cache_clear => (hits' = 0 /\ misses' = 0)
    /\ ~cache_clear => (hits' \in {hits, hits + 1} /\ misses' \in {misses, misses + 1})
    /\ \A t \in Tasks, k \in Keys :
          Call(t, k) => (hits' \in {hits, hits + 1} /\ misses' \in {misses, misses + 1})
    /\ \A k \in Keys :
          cache_discard(k) => (hits' \in {hits, hits + 1} /\ misses' \in {misses, misses + 1})
    /\ (cache_info'.hits < cache_info.hits \/ cache_info'.misses < cache_info.misses)
          => cache_clear

\* C25: the hit counter and the miss counter never decrease except by cache_clear:
\* every step of a call or of a cache_discard, and every other step that is not a
\* cache_clear, leaves each counter as it was or larger by one; a cache_clear step
\* sets both to zero.
C25_CountersMonotone == [][C25_CountersStep]_vars

\* C25 witness: an unbounded cache in which a stored key was discarded after hits
\* and misses were counted: every invocation made is still counted as a miss.
C25_Witness ==
    /\ maxsize = MaxsizeNone
    /\ hits >= 1
    /\ misses >= 2
    /\ misses = Cardinality({t \in Tasks : Originated(t)})
    /\ \E t \in Tasks : /\ Originated(t) /\ pc[t] = "done" /\ out[t].kind = "result"
                         /\ key[t] \notin CacheKeys(cache)

\* ------------------------------------------------------------------ C26
\* C26 (as claimed): at every moment a key is absent, pending or cached, and never
\* cached and pending at once.
C26_CachedXorPending ==
    Cached => \A k \in Keys : ~(k \in CacheKeys(cache) /\ in_flight[k] # NoFuture)

\* ------------------------------------------------------------------ C27
\* The producer invocations started so far.
Invocations(s) == Sum(s, Keys)

\* C27, one step: the miss counter moves with the producer invocations.
C27_MissPerInvocationStep ==
    /\ cache_clear => (misses' = 0 /\ hits' = 0 /\ started' = started /\ pc' = pc)
    /\ ~cache_clear =>
          /\ misses' - misses = Invocations(started') - Invocations(started)
          /\ misses' - misses \in {0, 1}
    /\ (\E t \in Tasks : pc[t] = "idle" /\ pc'[t] = "producing")
          <=> (misses' = misses + 1)

\* C27, one step of a cached variant: a call is a hit, a miss or a join, and is
\* counted as that and nothing else.
C27_CallCountedOnceStep ==
    Cached => \A t \in Tasks, k \in Keys : Call(t, k) =>
        \/ pc'[t] = "done" /\ hits' = hits + 1 /\ misses' = misses
        \/ pc'[t] = "producing" /\ hits' = hits /\ misses' = misses + 1
        \/ pc'[t] = "joined" /\ hits' = hits /\ misses' = misses

\* C27, in every state: no miss is counted without an invocation, and the hits,
\* misses and joins are calls that were made.
C27_CountedState ==
    /\ misses <= Invocations(started)
    /\ Cached =>
          hits + misses + Cardinality({t \in Tasks : JoinedOn(t)}) <= Cardinality(Called)
    /\ (Cached /\ orphaned = {} /\ hits + misses > 0) =>
          /\ misses <= Cardinality({t \in Tasks : Originated(t)})
          /\ hits <= Cardinality({t \in Tasks : WasHit(t)})

\* C27: the miss counter is zero at the start and after each cache_clear, and every
\* other step adds to it exactly the number of producer invocations the step
\* started (one or none), so that misses is the number of invocations started since
\* the most recent cache_clear: the producer is never started without a miss being
\* counted, and no miss is counted without the producer being started. In the cached
\* variants every call is counted as exactly one of a hit, a miss or a join, so that
\* hits plus misses plus joins is the number of calls made since then.
C27_MissesCountInvocations ==
    /\ []C27_CountedState
    /\ [][C27_MissPerInvocationStep /\ C27_CallCountedOnceStep]_vars

\* C27 witness: a call was in flight when the cache was cleared; since then one call
\* missed, one joined it and one hit: one miss and one hit are counted, two
\* invocations were started in all.
C27_Witness ==
    /\ Cached
    /\ orphaned # {}
    /\ misses = 1 /\ hits = 1
    /\ Invocations(started) = 2
    /\ \E o, j, h \in Tasks :
          /\ o \notin orphaned /\ Originated(o) /\ pc[o] = "done"
          /\ JoinedOn(j) /\ fut[j] = o
          /\ WasHit(h) /\ h > o

\* ------------------------------------------------------------------ C28
\* C28, one step: the completion of t's invocation.
C28_RemovesOwnEntryStep ==
    \A t \in Tasks :
        (Cached /\ (ProducerReturn(t) \/ ProducerRaise(t))) =>
            \A k \in Keys :
                in_flight'[k] = IF in_flight[k] = t THEN NoFuture ELSE in_flight[k]

\* C28, in every state: a registered entry belongs to an invocation still running,
\* and a caller that joined an entry got the outcome of that entry's invocation.
C28_ServedByOwnInvocation ==
    Cached =>
        /\ \A k \in Keys : in_flight[k] # NoFuture =>
              (pc[in_flight[k]] = "producing" /\ in_flight[k] \notin orphaned)
        /\ \A u \in Tasks : (JoinedOn(u) /\ pc[u] = "done") =>
              (pc[fut[u]] = "done" /\ out[u] = produced[fut[u]])

\* C28: a completing call removes from the registry only the pending entry it
\* created itself: when a cache_clear dropped its entry and a newer entry for the
\* same key was registered since, the completion leaves the newer entry registered,
\* and the callers that joined the newer entry get the outcome of the newer
\* invocation.
C28_RemovesOnlyOwnEntry == []C28_ServedByOwnInvocation /\ [][C28_RemovesOwnEntryStep]_vars

\* C28 witness: the older invocation of a cleared key completed and stored its value
\* while the newer invocation was registered; the newer one then completed, and its
\* joiner got the newer result.
C28_Witness ==
    /\ Cached
    /\ \E a \in orphaned : \E b, u \in Tasks :
          /\ b > a /\ key[b] = key[a] /\ Originated(b) /\ b \notin orphaned
          /\ pc[a] = "done" /\ out[a] = Result(Value(a))
          /\ pc[b] = "done" /\ out[b] = Result(Value(b))
          /\ fut[u] = b /\ u # b /\ pc[u] = "done" /\ out[u] = Result(Value(b))
          /\ maxsize > 0 /\ key[a] \in CacheKeys(cache) /\ CacheGet(cache, key[a]) = Value(a)

\* ------------------------------------------------------------------ C29
\* C29 (as claimed): once the originating call has ended, by the producer returning,
\* the producer raising or the caller being cancelled, every caller still joined to
\* its pending entry is served: the future it awaits holds an outcome (a result, an
\* error or a cancellation), so that the event loop resumes it. Nothing but the
\* originating call resolves that future, so a joiner whose future is still pending
\* then waits forever.
C29_JoinersServed ==
    Cached => \A t \in Tasks :
        (pc[t] = "joined" /\ pc[fut[t]] \in {"done", "cancelled"}) =>
            future[fut[t]] # Pending

\* ------------------------------------------------------------------ C30
\* C30 (as claimed): an unbounded cache and a bounded cache whose capacity is at
\* least the number of distinct keys, given the same operations in the same order
\* with the same producer outcomes, agree on what every call returned or raised,
\* on the hits, misses and size that cache_info reports, and on the value stored
\* for every key.
C30_SameObservations ==
    /\ twin.pc = pc
    /\ twin.out = out
    /\ twin.hits = cache_info.hits
    /\ twin.misses = cache_info.misses
    /\ Len(twin.cache) = cache_info.currsize
    /\ CacheKeys(twin.cache) = CacheKeys(cache)
    /\ \A k \in CacheKeys(cache) : CacheGet(twin.cache, k) = CacheGet(cache, k)

\* ------------------------------------------------------------------ C31
\* The attempts a call of the wrapper has made: those ended and the one awaited.
Attempts(c) == Len(c.tried) + (IF c.pc = "awaiting" THEN 1 ELSE 0)

\* C31 (as claimed): a function wrapped with tries(times), times >= 1, is attempted
\* at most `times` times; every attempt but the last one made raised; a call that
\* has ended either returned the result of its last attempt, or made all `times`
\* attempts, all of which raised, and raised the exception of the last one.
C31_TriesRaisesLast ==
    retry.times >= 1 => \A t \in Tasks :
        LET c == retry.call[t]
        IN /\ Attempts(c) <= retry.times
           /\ \A i \in 1..(Len(c.tried) - 1) : c.tried[i].kind = "exception"
           /\ c.pc = "done" =>
                 /\ c.tried # <<>>
                 /\ c.out = c.tried[Len(c.tried)]
                 /\ c.out.kind = "exception" => Len(c.tried) = retry.times

====
